---- MODULE Spec2Model ----
(***************************************************************************)
(* Azure DevOps Branch Name Autofill (userscript, final variant).          *)
(*                                                                         *)
(* The page is one cooperative event loop.  Every action below is one turn *)
(* of it: a timer callback, a MutationObserver callback, a host-page task  *)
(* or a user input event.  Strings are sequences of one-character strings, *)
(* so that trimming, the link-text pattern and formatTitle are computed    *)
(* character by character as the script computes them.                     *)
(***************************************************************************)
EXTENDS Integers, Sequences, FiniteSets, TLC

(***************************************************************************)
(* Bounds of the model.                                                    *)
(***************************************************************************)
MaxEpisodes == 2   \* dialog episodes the detector may start
MaxLinks == 2      \* work-item links the host may put into the sub-region
MaxBatch == 2      \* added nodes reported to the detector in one callback

(***************************************************************************)
(* Characters.                                                             *)
(***************************************************************************)
LowerSeq == <<"a","b","c","d","e","f","g","h","i","j","k","l","m",
              "n","o","p","q","r","s","t","u","v","w","x","y","z">>
UpperSeq == <<"A","B","C","D","E","F","G","H","I","J","K","L","M",
              "N","O","P","Q","R","S","T","U","V","W","X","Y","Z">>
Lower == {LowerSeq[i] : i \in 1..Len(LowerSeq)}
Upper == {UpperSeq[i] : i \in 1..Len(UpperSeq)}
Digit == {"0","1","2","3","4","5","6","7","8","9"}
AlphaNum == Lower \cup Upper \cup Digit
\* \s of a JavaScript regular expression (the members the model uses)
Space == {" ", "\t", "\n", "\r"}
\* characters "." does not match
LineTerminator == {"\n", "\r"}
\* \w
WordChar == AlphaNum \cup {"_"}
\* the class of the first replace of formatTitle
SepPunct == {"/", "\\", "|", ":", ";", "_", "~", "+", "&", ",", ">"}

\* String.prototype.toUpperCase on one character
ToUpper(c) ==
  IF c \in Lower
    THEN UpperSeq[CHOOSE i \in 1..Len(LowerSeq) : LowerSeq[i] = c]
    ELSE c

(***************************************************************************)
(* String helpers.                                                         *)
(***************************************************************************)
\* length of the longest prefix of s made of characters of class
RECURSIVE RunLen(_, _)
RunLen(s, class) ==
  IF s = <<>> \/ Head(s) \notin class THEN 0 ELSE 1 + RunLen(Tail(s), class)

\* length of the longest prefix of s with no character of class
RECURSIVE RunLenNot(_, _)
RunLenNot(s, class) ==
  IF s = <<>> \/ Head(s) \in class THEN 0 ELSE 1 + RunLenNot(Tail(s), class)

Drop(s, n) == SubSeq(s, n + 1, Len(s))
Take(s, n) == SubSeq(s, 1, n)

RECURSIVE Reverse(_)
Reverse(s) == IF s = <<>> THEN <<>> ELSE Append(Reverse(Tail(s)), Head(s))

\* String.prototype.trim
Trim(s) ==
  LET t == Drop(s, RunLen(s, Space))
  IN  Take(t, Len(t) - RunLen(Reverse(t), Space))

\* s.replace(/[class]+/g, rep): every maximal run of class becomes rep
RECURSIVE ReplaceRuns(_, _, _)
ReplaceRuns(s, class, rep) ==
  IF s = <<>> THEN <<>>
  ELSE IF Head(s) \in class
    THEN rep \o ReplaceRuns(Drop(s, RunLen(s, class)), class, rep)
    ELSE <<Head(s)>> \o ReplaceRuns(Tail(s), class, rep)

\* s.replace(/[^keep]/g, "")
RECURSIVE KeepOnly(_, _)
KeepOnly(s, keep) ==
  IF s = <<>> THEN <<>>
  ELSE IF Head(s) \in keep
    THEN <<Head(s)>> \o KeepOnly(Tail(s), keep)
    ELSE KeepOnly(Tail(s), keep)

\* s.split(/[class]+/): pieces between maximal runs of class; a leading or
\* trailing run yields an empty piece, and "" splits into one empty piece
RECURSIVE SplitRuns(_, _)
SplitRuns(s, class) ==
  LET n == RunLenNot(s, class)
  IN  IF n = Len(s) THEN <<s>>
      ELSE <<Take(s, n)>>
             \o SplitRuns(Drop(s, n + RunLen(Drop(s, n), class)), class)

\* the array without the filter(Boolean)
FilterKeepAll(a) == a

\* array.filter(Boolean) on an array of strings
RECURSIVE FilterNonEmpty(_)
FilterNonEmpty(a) ==
  IF a = <<>> THEN <<>>
  ELSE IF Head(a) = <<>> THEN FilterNonEmpty(Tail(a))
  ELSE <<Head(a)>> \o FilterNonEmpty(Tail(a))

\* Capitalize without the toUpperCase
CapitalizeNone(word) == word

\* word.charAt(0).toUpperCase() + word.slice(1)
Capitalize(word) ==
  IF word = <<>> THEN <<>> ELSE <<ToUpper(Head(word))>> \o Tail(word)

\* array.join(sep)
RECURSIVE Join(_, _)
Join(a, sep) ==
  IF a = <<>> THEN <<>>
  ELSE IF Len(a) = 1 THEN Head(a)
  ELSE Head(a) \o sep \o Join(Tail(a), sep)

(***************************************************************************)
(* Configuration and the pure functions of the script.                     *)
(***************************************************************************)
BRANCH_PREFIX == <<"f","e","a","t","u","r","e","/">>

\* formatTitle of the first draft: no punctuation rewrite before the strip
formatTitleDraft(title) ==
  LET stripped == KeepOnly(title, AlphaNum \cup Space \cup {"-"})
      collapsed == ReplaceRuns(stripped, Space, <<" ">>)
      words == FilterNonEmpty(SplitRuns(Trim(collapsed), Space \cup {"-"}))
  IN  Join([i \in 1..Len(words) |-> Capitalize(words[i])], <<"-">>)

formatTitle(title) ==
  LET punct == ReplaceRuns(title, SepPunct, <<" ">>)
      stripped == KeepOnly(punct, AlphaNum \cup Space \cup {"-"})
      collapsed == ReplaceRuns(stripped, Space, <<" ">>)
      words == FilterNonEmpty(SplitRuns(Trim(collapsed), Space \cup {"-"}))
  IN  Join([i \in 1..Len(words) |-> Capitalize(words[i])], <<"-">>)

\* buildBranchName that leaves the hyphen out when the title formats to ""
buildBranchNameBare(id, title) ==
  IF formatTitle(title) = <<>> THEN BRANCH_PREFIX \o id
  ELSE BRANCH_PREFIX \o id \o <<"-">> \o formatTitle(title)

buildBranchName(id, title) == BRANCH_PREFIX \o id \o <<"-">> \o formatTitle(title)

\* the result of an extraction that found nothing (null)
NoMatch == [found |-> FALSE, id |-> <<>>, title |-> <<>>]

\* text.match(/^\w+\s+(\d+):\s*(.+)$/), with the trim of group 2.  Each
\* greedy run is maximal because the token after it starts with a character
\* outside the run's class; \s* gives characters back to (.+) only while
\* (.+) cannot reach the end of the text.
MatchWorkItem(text) ==
  LET w == RunLen(text, WordChar)
      afterWord == Drop(text, w)
      sp == RunLen(afterWord, Space)
      afterSpace == Drop(afterWord, sp)
      d == RunLen(afterSpace, Digit)
      afterDigits == Drop(afterSpace, d)
      rest == Drop(afterDigits, 1)
      fits == {k \in 0..RunLen(rest, Space) :
                 /\ Drop(rest, k) # <<>>
                 /\ RunLenNot(Drop(rest, k), LineTerminator) = Len(Drop(rest, k))}
      k == CHOOSE x \in fits : \A y \in fits : y <= x
  IN  IF /\ w > 0 /\ sp > 0 /\ d > 0
         /\ afterDigits # <<>> /\ Head(afterDigits) = ":"
         /\ fits # {}
        THEN [found |-> TRUE, id |-> Take(afterSpace, d),
              title |-> Trim(Drop(rest, k))]
        ELSE NoMatch

\* the match without the trim of the link's text
ExtractTextNoTrim(text) == MatchWorkItem(text)

\* link.textContent.trim() matched against the pattern
ExtractText(text) == MatchWorkItem(Trim(text))

(***************************************************************************)
(* The host page.  The dialog's markup is body > dialog > heading, the     *)
(* heading being the marker element #__bolt-create-version-dialog; the     *)
(* branch-name input and the extensions region are children of dialog.     *)
(***************************************************************************)
Marker == "heading"
Parent == [heading |-> "dialog", dialog |-> "body"]
Elements == {"dialog", "heading"}
\* what a mutation record's addedNodes may hold: the two elements above, an
\* element without the marker, and a text node
AddedNodes == Elements \cup {"other", "text"}
\* the elements that may carry role="dialog": the host's markup, fixed
RoleSets == SUBSET Elements

\* n and its ancestors below body, nearest first
RECURSIVE SelfAndAncestors(_)
SelfAndAncestors(n) ==
  IF n \in DOMAIN Parent THEN <<n>> \o SelfAndAncestors(Parent[n]) ELSE <<>>

\* node.querySelector("#__bolt-create-version-dialog"): a strict descendant
ContainsMarker(node) ==
  /\ node \in Elements
  /\ node # Marker
  /\ \E i \in 2..Len(SelfAndAncestors(Marker)) : SelfAndAncestors(Marker)[i] = node

\* element.closest('[role="dialog"]') under the role assignment roles
Closest(n, roles) ==
  LET chain == SelfAndAncestors(n)
      hits == {i \in 1..Len(chain) : chain[i] \in roles}
  IN  IF hits = {} THEN "none"
      ELSE chain[CHOOSE i \in hits : \A j \in hits : i <= j]

\* ResolveRoot falling back to the marker element instead of the added node
ResolveRootHeading(node, roles) ==
  LET dialogHeading == IF node = Marker THEN node
                       ELSE IF ContainsMarker(node) THEN Marker
                       ELSE "none"
  IN  IF node \notin Elements \cup {"other"} THEN "none"
      ELSE IF dialogHeading = "none" THEN "none"
      ELSE IF Closest(dialogHeading, roles) # "none"
        THEN Closest(dialogHeading, roles)
        ELSE dialogHeading

\* the dialog root the detector resolves for one added node, "none" when the
\* node is skipped
ResolveRoot(node, roles) ==
  LET dialogHeading == IF node = Marker THEN node
                       ELSE IF ContainsMarker(node) THEN Marker
                       ELSE "none"
  IN  IF node \notin Elements \cup {"other"} THEN "none"
      ELSE IF dialogHeading = "none" THEN "none"
      ELSE IF Closest(dialogHeading, roles) # "none"
        THEN Closest(dialogHeading, roles)
        ELSE node

\* root.querySelector(...) for the input and the region: both are children
\* of dialog, so they are found from dialog only
InScope(root) == root = "dialog"

LinkText1 == <<"T","a","s","k"," ","1","0","0",":"," ",
               "A","d","d"," ","l","o","g","i","n"," ","p","a","g","e">>
LinkText2 == <<"B","u","g"," ","4","8","2","1",":"," ",
               "C","r","a","s","h"," ","o","n"," ","s","a","v","e">>
LinkText3 == <<"M","a","l","f","o","r","m","e","d"," ","l","i","n","e">>
\* texts the host gives to work-item links
LinkTexts == {LinkText1, LinkText2, LinkText3}
\* values the user types into the field
UserValues == {<<>>, <<" ">>, <<"x">>}
\* where .flex-column and .bolt-textfield sit around the input
Layouts == {"none", "containerOnly", "textfieldInContainer", "containerInTextfield"}

\* the extraction and the branch name of every link text of the model
WorkItemOf == [t \in LinkTexts |-> ExtractText(t)]
\* a record whose title formats to the empty string
BareRecord == [found |-> TRUE, id |-> <<"7">>, title |-> <<"!", "!">>]
Records == {WorkItemOf[t] : t \in LinkTexts} \cup {BareRecord}
BranchNameOf == [wi \in Records |-> buildBranchName(wi.id, wi.title)]
\* the values the field can hold, and the blank ones among them
FieldValues == UserValues \cup {BranchNameOf[wi] : wi \in Records}
BlankValues == {v \in FieldValues : Trim(v) = <<>>}
\* branchInput.value.trim() === ""
IsBlank(v) == v \in BlankValues

VARIABLES
  dom,        \* the dialog's tree: input, region, links, roles, copy control
  inputLog,   \* what the script did to the input, in order
  ep,         \* the dialog episodes, by number
  emptied,    \* the user has emptied a non-blank field
  markers,    \* added nodes that were or contained the marker
  calc,       \* a pure function of the script at work: its argument and result
  copy        \* the copy control: icon, clipboard, writes in flight, timers

vars == <<dom, inputLog, ep, emptied, markers, calc, copy>>
\* what the dialog episodes and the host leave alone
side == <<calc, copy>>
\* no pure function is being followed, and no copy control is being followed
NoCalc == [op |-> "none"]
NoCopy == [icon |-> "none"]

Episodes == 1..MaxEpisodes

FreeEpisode ==
  [pc |-> "free", root |-> "none", settled |-> FALSE, observing |-> FALSE,
   pending |-> FALSE, timer |-> "none", timedOut |-> FALSE,
   fillCalls |-> 0, writes |-> 0]

InitDom(layouts) ==
  [hasInput : {FALSE}, value : {<<>>}, region : {"absent"}, links : {<<>>},
   layout : layouts, roles : RoleSets, controls : {0}, posObservers : {0}]

InitRest ==
  /\ inputLog = <<>>
  /\ ep = [e \in Episodes |-> FreeEpisode]
  /\ emptied = FALSE
  /\ markers = 0
  /\ calc = NoCalc
  /\ copy = NoCopy

\* the markup of Azure DevOps: .bolt-textfield inside the .flex-column
Init == dom \in InitDom({"textfieldInContainer"}) /\ InitRest

(***************************************************************************)
(* The script's operations on the tree.  An operation that touches the     *)
(* input works on the pair st = [dom, log].                                *)
(***************************************************************************)
\* getWorkItemFromDialog querying the links without regard to the dialog
getWorkItemFromDialogAnywhere(root, d) ==
  IF d.links = <<>> THEN NoMatch ELSE WorkItemOf[Head(d.links)]

\* getWorkItemFromDialog trying every link of the region until one fits
getWorkItemFromDialogAnyLink(root, d) ==
  LET fits == {i \in 1..Len(d.links) : WorkItemOf[d.links[i]].found}
  IN  IF ~(InScope(root) /\ d.region = "attached") THEN NoMatch
      ELSE IF fits = {} THEN NoMatch
      ELSE WorkItemOf[d.links[CHOOSE i \in fits : \A j \in fits : i <= j]]

\* getWorkItemFromDialog(dialog): the first link of the region, re-queried
\* from the dialog root on every call
getWorkItemFromDialog(root, d) ==
  IF ~(InScope(root) /\ d.region = "attached") THEN NoMatch
  ELSE IF d.links = <<>> THEN NoMatch
  ELSE WorkItemOf[Head(d.links)]

\* setInputValue dispatching the events before it sets the value
setInputValueEventsFirst(st, value) ==
  [dom |-> [st.dom EXCEPT !.value = value],
   log |-> st.log \o <<"input", "change", "set">>]

\* setInputValue(input, value): native setter, then "input", then "change"
setInputValue(st, value) ==
  [dom |-> [st.dom EXCEPT !.value = value],
   log |-> st.log \o <<"set", "input", "change">>]

\* addCopyButton without the "don't add twice" test
addCopyButtonAgain(st) ==
  LET d == st.dom
      hasContainer == d.layout # "none"
      hasTextfield == d.layout \in {"textfieldInContainer", "containerInTextfield"}
  IN  IF ~hasContainer THEN st
      ELSE IF hasTextfield
        THEN [dom |-> [d EXCEPT !.controls = @ + 1, !.posObservers = @ + 1],
              log |-> Append(st.log, "control")]
        ELSE st

\* addCopyButton(branchInput)
addCopyButton(st) ==
  LET d == st.dom
      hasContainer == d.layout # "none"
      hasTextfield == d.layout \in {"textfieldInContainer", "containerInTextfield"}
      \* container.querySelector(".bolt-clipboard-button")
      found == d.layout = "textfieldInContainer" /\ d.controls > 0
  IN  IF ~hasContainer \/ found THEN st
      ELSE IF hasTextfield
        THEN [dom |-> [d EXCEPT !.controls = @ + 1, !.posObservers = @ + 1],
              log |-> Append(st.log, "control")]
        ELSE st

\* fillBranchName without the "still empty" test
fillBranchNameUnguarded(st, workItem) ==
  LET set == setInputValue(st, BranchNameOf[workItem])
      btn == addCopyButton(set)
  IN  [dom |-> btn.dom, log |-> btn.log \o <<"focus", "select">>]

\* fillBranchName(branchInput, workItem)
fillBranchName(st, workItem) ==
  IF ~IsBlank(st.dom.value) THEN st
  ELSE LET set == setInputValue(st, BranchNameOf[workItem])
           btn == addCopyButton(set)
       IN  [dom |-> btn.dom, log |-> btn.log \o <<"focus", "select">>]

\* the pair the script works on in the current state
Now == [dom |-> dom, log |-> inputLog]

\* 1 when fillBranchName(st, workItem) sets the value, else 0
Wrote(st, workItem) ==
  IF Len(fillBranchName(st, workItem).log) > Len(st.log) THEN 1 ELSE 0

(***************************************************************************)
(* The event loop.  Mutation callbacks are microtasks: while one is        *)
(* pending no timer, user event or detector callback runs.  Timers of      *)
(* equal delay fire in the order they were set, and observers are notified *)
(* in the order they were created, which is the order of the episodes.     *)
(***************************************************************************)
NoPending == \A e \in Episodes : ~ep[e].pending

Started == {e \in Episodes : ep[e].pc # "free"}

\* MatchedRoots with a detector that starts one episode per callback
RECURSIVE MatchedRootsOnce(_, _)
MatchedRootsOnce(batch, roles) ==
  IF batch = <<>> THEN <<>>
  ELSE IF ResolveRoot(Head(batch), roles) = "none"
    THEN MatchedRootsOnce(Tail(batch), roles)
    ELSE <<ResolveRoot(Head(batch), roles)>>

\* the roots of the nodes of one callback's records that pass the marker
\* test, in order
RECURSIVE MatchedRoots(_, _)
MatchedRoots(batch, roles) ==
  IF batch = <<>> THEN <<>>
  ELSE LET r == ResolveRoot(Head(batch), roles)
       IN  (IF r = "none" THEN <<>> ELSE <<r>>) \o MatchedRoots(Tail(batch), roles)

Batches == UNION {[1..n -> AddedNodes] : n \in 1..MaxBatch}

\* the detector calling handleBranchDialog in the turn of the detection: an
\* episode whose dialog has no input yet returns there and then
ObserverCallbackEager(batch, roles) ==
  LET roots == MatchedRoots(batch, roles)
      used == Cardinality(Started)
  IN  /\ NoPending
      /\ used + Len(roots) <= MaxEpisodes
      /\ ep' = [e \in Episodes |->
                  IF e > used /\ e <= used + Len(roots)
                    THEN [FreeEpisode EXCEPT
                            !.pc = IF InScope(roots[e - used]) /\ dom.hasInput
                                     THEN "scheduled" ELSE "returned",
                            !.root = roots[e - used]]
                    ELSE ep[e]]
      /\ markers' = markers + Cardinality({i \in 1..Len(batch) :
                                  batch[i] = Marker \/ ContainsMarker(batch[i])})
      /\ UNCHANGED <<dom, inputLog, emptied, side>>

\* a detector that disconnects itself once it has started an episode
ObserverCallbackOnce(batch, roles) ==
  LET roots == MatchedRoots(batch, roles)
  IN  /\ NoPending
      /\ Started = {}
      /\ Len(roots) <= MaxEpisodes
      /\ ep' = [e \in Episodes |->
                  IF e <= Len(roots)
                    THEN [FreeEpisode EXCEPT !.pc = "scheduled", !.root = roots[e]]
                    ELSE ep[e]]
      /\ markers' = markers + Cardinality({i \in 1..Len(batch) :
                                  batch[i] = Marker \/ ContainsMarker(batch[i])})
      /\ UNCHANGED <<dom, inputLog, emptied, side>>

\* observer callback (document.body): one setTimeout(handleBranchDialog, 100)
\* per matching added node
ObserverCallback(batch, roles) ==
  LET roots == MatchedRoots(batch, roles)
      used == Cardinality(Started)
  IN  /\ NoPending
      /\ used + Len(roots) <= MaxEpisodes
      /\ ep' = [e \in Episodes |->
                  IF e > used /\ e <= used + Len(roots)
                    THEN [FreeEpisode EXCEPT !.pc = "scheduled", !.root = roots[e - used]]
                    ELSE ep[e]]
      /\ markers' = markers + Cardinality({i \in 1..Len(batch) :
                                  batch[i] = Marker \/ ContainsMarker(batch[i])})
      /\ UNCHANGED <<dom, inputLog, emptied, side>>

\* waitForWorkItem without the early return after the immediate fill
waitForWorkItemNoReturn(e, workItem) ==
  IF workItem.found
    THEN [ep[e] EXCEPT !.pc = "immediate", !.fillCalls = @ + 1,
                       !.writes = @ + Wrote(Now, workItem),
                       !.observing = TRUE, !.timer = "pending"]
    ELSE [ep[e] EXCEPT !.pc = "waiting", !.settled = FALSE, !.observing = TRUE,
                       !.timer = "pending"]

\* waitForWorkItem without the safety timeout
waitForWorkItemNoTimer(e, workItem) ==
  IF workItem.found
    THEN [ep[e] EXCEPT !.pc = "immediate", !.fillCalls = @ + 1,
                       !.writes = @ + Wrote(Now, workItem)]
    ELSE [ep[e] EXCEPT !.pc = "waiting", !.settled = FALSE, !.observing = TRUE]

\* the episode after waitForWorkItem(dialog, branchInput, extensionsRegion)
waitForWorkItem(e, workItem) ==
  IF workItem.found
    THEN [ep[e] EXCEPT !.pc = "immediate", !.fillCalls = @ + 1,
                       !.writes = @ + Wrote(Now, workItem)]
    ELSE [ep[e] EXCEPT !.pc = "waiting", !.settled = FALSE, !.observing = TRUE,
                       !.timer = "pending"]

\* handleBranchDialog without the test of the input's value
HandoffIgnoringValue(e) ==
  LET root == ep[e].root
      hasBranchInput == InScope(root) /\ dom.hasInput
      hasRegion == InScope(root) /\ dom.region = "attached"
      workItem == getWorkItemFromDialog(root, dom)
      after == waitForWorkItem(e, workItem)
  IN  /\ ep[e].pc = "scheduled"
      /\ NoPending
      /\ \A f \in Episodes : f < e => ep[f].pc # "scheduled"
      /\ IF ~hasBranchInput \/ ~hasRegion
           THEN /\ ep' = [ep EXCEPT ![e].pc = "returned"]
                /\ UNCHANGED <<dom, inputLog>>
           ELSE /\ ep' = [ep EXCEPT ![e] = after]
                /\ IF after.fillCalls > ep[e].fillCalls
                     THEN /\ dom' = fillBranchName(Now, workItem).dom
                          /\ inputLog' = fillBranchName(Now, workItem).log
                     ELSE UNCHANGED <<dom, inputLog>>
      /\ UNCHANGED <<emptied, markers, side>>

\* the 100 ms timer: handleBranchDialog(dialog), and waitForWorkItem when the
\* input is there and blank and the region is there
Handoff(e) ==
  LET root == ep[e].root
      hasBranchInput == InScope(root) /\ dom.hasInput
      hasRegion == InScope(root) /\ dom.region = "attached"
      workItem == getWorkItemFromDialog(root, dom)
      after == waitForWorkItem(e, workItem)
  IN  /\ ep[e].pc = "scheduled"
      /\ NoPending
      /\ \A f \in Episodes : f < e => ep[f].pc # "scheduled"
      /\ IF ~hasBranchInput \/ ~IsBlank(dom.value) \/ ~hasRegion
           THEN /\ ep' = [ep EXCEPT ![e].pc = "returned"]
                /\ UNCHANGED <<dom, inputLog>>
           ELSE /\ ep' = [ep EXCEPT ![e] = after]
                /\ IF after.fillCalls > ep[e].fillCalls
                     THEN /\ dom' = fillBranchName(Now, workItem).dom
                          /\ inputLog' = fillBranchName(Now, workItem).log
                     ELSE UNCHANGED <<dom, inputLog>>
      /\ UNCHANGED <<emptied, markers, side>>

\* the callback without the settled flag and without the disconnect
MutationResultNoSettle(e, wi) ==
  IF wi.found
    THEN [ep[e] EXCEPT !.pending = FALSE, !.fillCalls = @ + 1,
                       !.writes = @ + Wrote(Now, wi)]
    ELSE [ep[e] EXCEPT !.pending = FALSE]

\* the callback giving up on the first extraction that finds nothing
MutationResultGiveUp(e, wi) ==
  IF ep[e].settled THEN [ep[e] EXCEPT !.pending = FALSE]
  ELSE IF wi.found
    THEN [ep[e] EXCEPT !.pending = FALSE, !.settled = TRUE, !.observing = FALSE,
                       !.fillCalls = @ + 1, !.writes = @ + Wrote(Now, wi)]
    ELSE [ep[e] EXCEPT !.pending = FALSE, !.settled = TRUE, !.observing = FALSE]

\* the callback settling only when the fill writes: an extraction that
\* finds the field non-blank leaves the episode subscribed
MutationResultSettleOnWrite(e, wi) ==
  IF ep[e].settled THEN [ep[e] EXCEPT !.pending = FALSE]
  ELSE IF wi.found /\ Wrote(Now, wi) = 1
    THEN [ep[e] EXCEPT !.pending = FALSE, !.settled = TRUE, !.observing = FALSE,
                       !.fillCalls = @ + 1, !.writes = @ + 1]
    ELSE [ep[e] EXCEPT !.pending = FALSE]

\* the episode after one run of the workItemObserver callback
MutationResult(e, wi) ==
  IF ep[e].settled THEN [ep[e] EXCEPT !.pending = FALSE]
  ELSE IF wi.found
    THEN [ep[e] EXCEPT !.pending = FALSE, !.settled = TRUE, !.observing = FALSE,
                       !.fillCalls = @ + 1, !.writes = @ + Wrote(Now, wi)]
    ELSE [ep[e] EXCEPT !.pending = FALSE]

\* workItemObserver callback of episode e
MutationCallback(e) ==
  LET wi == getWorkItemFromDialog(ep[e].root, dom)
      after == MutationResult(e, wi)
  IN  /\ ep[e].pending
      /\ \A f \in Episodes : f < e => ~ep[f].pending
      /\ ep' = [ep EXCEPT ![e] = after]
      /\ IF after.fillCalls > ep[e].fillCalls
           THEN /\ dom' = fillBranchName(Now, wi).dom
                /\ inputLog' = fillBranchName(Now, wi).log
           ELSE UNCHANGED <<dom, inputLog>>
      /\ UNCHANGED <<emptied, markers, side>>

\* the timer callback without the settled test
TimeoutResultUnguarded(e) ==
  [ep[e] EXCEPT !.timer = "fired", !.settled = TRUE, !.observing = FALSE,
                !.pending = FALSE, !.timedOut = TRUE]

\* the timer callback without the disconnect
TimeoutResultNoDisconnect(e) ==
  IF ~ep[e].settled
    THEN [ep[e] EXCEPT !.timer = "fired", !.settled = TRUE, !.timedOut = TRUE]
    ELSE [ep[e] EXCEPT !.timer = "fired"]

\* the episode after the 10 s safety timer's callback
TimeoutResult(e) ==
  IF ~ep[e].settled
    THEN [ep[e] EXCEPT !.timer = "fired", !.settled = TRUE, !.observing = FALSE,
                       !.pending = FALSE, !.timedOut = TRUE]
    ELSE [ep[e] EXCEPT !.timer = "fired"]

\* the timer callback with one settled flag shared by all episodes: the
\* timeout of one episode settles every subscribed episode
TimeoutSharedFlag(e) ==
  /\ ep[e].timer = "pending"
  /\ NoPending
  /\ \A f \in Episodes : f < e => (ep[f].timer # "pending" /\ ep[f].pc # "scheduled")
  /\ ep' = [f \in Episodes |->
              IF f = e THEN TimeoutResult(e)
              ELSE IF ep[f].pc = "waiting" THEN [ep[f] EXCEPT !.settled = TRUE]
              ELSE ep[f]]
  /\ UNCHANGED <<dom, inputLog, emptied, markers, side>>

Timeout(e) ==
  /\ ep[e].timer = "pending"
  /\ NoPending
  /\ \A f \in Episodes : f < e => (ep[f].timer # "pending" /\ ep[f].pc # "scheduled")
  /\ ep' = [ep EXCEPT ![e] = TimeoutResult(e)]
  /\ UNCHANGED <<dom, inputLog, emptied, markers, side>>

(***************************************************************************)
(* The environment: the host page and the user.                            *)
(***************************************************************************)
\* a child-list mutation inside the region element queues a record for every
\* observer that observes it
Notify == [e \in Episodes |-> IF ep[e].observing THEN [ep[e] EXCEPT !.pending = TRUE]
                               ELSE ep[e]]

\* the microtask checkpoint has begun: one observer has had its callback and
\* another still waits for it.  All callbacks of one checkpoint run before
\* the next task, so the host does nothing in between.
Delivering ==
  \E e \in Episodes, f \in Episodes :
    ep[e].pending /\ ep[f].observing /\ ~ep[f].pending

HostRenderInput ==
  /\ NoPending
  /\ ~dom.hasInput
  /\ dom' = [dom EXCEPT !.hasInput = TRUE]
  /\ UNCHANGED <<inputLog, ep, emptied, markers, side>>

HostRenderRegion ==
  /\ NoPending
  /\ dom.region = "absent"
  /\ dom' = [dom EXCEPT !.region = "attached"]
  /\ UNCHANGED <<inputLog, ep, emptied, markers, side>>

\* the region element leaves the dialog; it lives on, detached
HostDetachRegion ==
  /\ NoPending
  /\ dom.region = "attached"
  /\ dom' = [dom EXCEPT !.region = "detached"]
  /\ UNCHANGED <<inputLog, ep, emptied, markers, side>>

\* the host links a work item once: no text is in the region twice
HostAddLink(text) ==
  /\ ~Delivering
  /\ dom.region # "absent"
  /\ Len(dom.links) < MaxLinks
  /\ \A i \in 1..Len(dom.links) : dom.links[i] # text
  /\ dom' = [dom EXCEPT !.links = Append(@, text)]
  /\ ep' = Notify
  /\ UNCHANGED <<inputLog, emptied, markers, side>>

HostRemoveLink ==
  /\ ~Delivering
  /\ dom.region # "absent"
  /\ dom.links # <<>>
  /\ dom' = [dom EXCEPT !.links = Tail(@)]
  /\ ep' = Notify
  /\ UNCHANGED <<inputLog, emptied, markers, side>>

UserType(v) ==
  /\ NoPending
  /\ dom.hasInput
  /\ v # dom.value
  /\ dom' = [dom EXCEPT !.value = v]
  /\ emptied' = (emptied \/ (~IsBlank(dom.value) /\ IsBlank(v)))
  /\ UNCHANGED <<inputLog, ep, markers, side>>

Next ==
  \/ /\ Cardinality(Started) < MaxEpisodes
     /\ \E batch \in Batches : ObserverCallback(batch, dom.roles)
  \/ \E e \in Episodes : Handoff(e)
  \/ \E e \in Episodes : MutationCallback(e)
  \/ \E e \in Episodes : Timeout(e)
  \/ HostRenderInput
  \/ HostRenderRegion
  \/ HostDetachRegion
  \/ \E text \in LinkTexts : HostAddLink(text)
  \/ HostRemoveLink
  \/ \E v \in UserValues : UserType(v)

Spec == Init /\ [][Next]_vars

\* The event loop serves its queues.  The microtask checkpoint that ends a
\* task delivers the queued mutation records, and nothing can take them
\* back: weak fairness.  A timer that is due runs in a later turn, after the
\* microtasks of the turns before it; the host may queue records again and
\* again, but it cannot keep due timers from ever running: strong fairness.
\* Callbacks and timers are served in order, so the one that is enabled is
\* always the oldest.
Fairness ==
  /\ WF_vars(\E e \in Episodes : MutationCallback(e))
  /\ SF_vars(\E e \in Episodes : Handoff(e))
  /\ SF_vars(\E e \in Episodes : Timeout(e))

LiveSpec == Init /\ [][Next]_vars /\ Fairness

(***************************************************************************)
(* The pure functions on their own.  The state is one call in progress:    *)
(* a title handed to formatTitle, or a link text handed to the pattern and *)
(* then to buildBranchName.  The page and the episodes stand still.        *)
(***************************************************************************)
MaxTitleLen == 4   \* characters of a generated title
MaxTokens == 5     \* pieces of a generated link text

\* one character of every class formatTitle tells apart: lower case, upper
\* case, digit, whitespace, hyphen, separator punctuation, other
TitleChars == {"a", "B", "1", " ", "-", "/", "!"}
TitleHello == <<"h","e","l","l","o"," ","w","o","r","l","d"," ","e","x","a","m","p","l","e">>
TitleFix == <<"F","i","x",":"," ","l","o","g","i","n","/","l","o","g","o","u","t"," "," "," ","b","u","g","!","!">>
TitleBlank == <<" ", "\t", " ">>
TitleSnake == <<"f","o","o","_","b","a","r">>
Titles ==
  UNION {[1..n -> TitleChars] : n \in 0..MaxTitleLen}
    \cup {TitleHello, TitleFix, TitleBlank, TitleSnake}

\* pieces of link text: a type word with its space, a digit run, the colon,
\* a line break, a one-letter word, a label of two lines
Tokens == {<<"U","_","1"," ">>, <<"1","2">>, <<":">>, <<"\n">>, <<"x">>,
           <<"a","\n","b">>}
TextStory == <<"U","s","e","r"," ","S","t","o","r","y"," ","1","2",":"," ","x">>
TextBare == <<"B","u","g"," ","7",":"," ","!","!">>
TextNoLabel == <<"B","u","g"," ","7",":"," ">>
TextPadded == <<" "," ","E","p","i","c"," ","3",":","\t","S","h","i","p"," ","i","t"," ","\n">>
Texts ==
  {Join(ts, <<>>) : ts \in UNION {[1..n -> Tokens] : n \in 0..MaxTokens}}
    \cup LinkTexts \cup {TextStory, TextBare, TextNoLabel, TextPadded}

\* the page without a dialog
NoDialog ==
  [hasInput |-> FALSE, value |-> <<>>, region |-> "absent", links |-> <<>>,
   layout |-> "textfieldInContainer", roles |-> {"dialog"}, controls |-> 0,
   posObservers |-> 0]

PureInit ==
  /\ dom = NoDialog
  /\ inputLog = <<>>
  /\ ep = [e \in Episodes |-> FreeEpisode]
  /\ emptied = FALSE
  /\ markers = 0
  /\ copy = NoCopy
  /\ calc \in [op : {"title"}, arg : Titles] \cup [op : {"link"}, arg : Texts]

\* formatTitle(title)
CallFormatTitle ==
  /\ calc.op = "title"
  /\ calc' = [op |-> "formatted", arg |-> calc.arg, out |-> formatTitle(calc.arg)]
  /\ UNCHANGED <<dom, inputLog, ep, emptied, markers, copy>>

\* formatTitle applied to its own result
CallFormatTitleAgain ==
  /\ calc.op = "formatted"
  /\ calc' = [op |-> "reformatted", arg |-> calc.arg, out |-> calc.out,
              again |-> formatTitle(calc.out)]
  /\ UNCHANGED <<dom, inputLog, ep, emptied, markers, copy>>

\* the trim and the match of getWorkItemFromDialog on the link's text
CallMatch ==
  /\ calc.op = "link"
  /\ calc' = [op |-> "extracted", arg |-> calc.arg, workItem |-> ExtractText(calc.arg)]
  /\ UNCHANGED <<dom, inputLog, ep, emptied, markers, copy>>

\* const branchName = buildBranchName(workItem.id, workItem.title), the value
\* fillBranchName hands to setInputValue
CallBuildBranchName ==
  /\ calc.op = "extracted"
  /\ calc.workItem.found
  /\ calc' = [op |-> "built", arg |-> calc.arg, workItem |-> calc.workItem,
              branchName |-> buildBranchName(calc.workItem.id, calc.workItem.title)]
  /\ UNCHANGED <<dom, inputLog, ep, emptied, markers, copy>>

PureNext ==
  \/ CallFormatTitle
  \/ CallFormatTitleAgain
  \/ CallMatch
  \/ CallBuildBranchName

PureSpec == PureInit /\ [][PureNext]_vars

(***************************************************************************)
(* The copy control on its own.  It starts where a mutation callback of    *)
(* the first episode has filled the field and attached the control; the    *)
(* episode's timer is still pending.  From there the user clicks and       *)
(* types, the clipboard settles its writes, and timers fire.               *)
(***************************************************************************)
MaxClicks == 3     \* clicks on the copy control

\* the element without index i
RemoveAt(q, i) == SubSeq(q, 1, i - 1) \o SubSeq(q, i + 1, Len(q))

\* clicks so far: writes in flight, writes settled, writes that failed
Clicks == Len(copy.inFlight) + copy.resolved + copy.rejected

CopyInit ==
  /\ dom = [hasInput |-> TRUE, value |-> BranchNameOf[WorkItemOf[LinkText1]],
            region |-> "attached", links |-> <<LinkText1>>,
            layout |-> "textfieldInContainer", roles |-> {"dialog"},
            controls |-> 1, posObservers |-> 1]
  /\ inputLog = <<"set", "input", "change", "control", "focus", "select">>
  /\ ep = [e \in Episodes |->
             IF e = 1
               THEN [pc |-> "waiting", root |-> "dialog", settled |-> TRUE,
                     observing |-> FALSE, pending |-> FALSE, timer |-> "pending",
                     timedOut |-> FALSE, fillCalls |-> 1, writes |-> 1]
               ELSE FreeEpisode]
  /\ emptied = FALSE
  /\ markers = 1
  /\ calc = NoCalc
  /\ copy \in [icon : {"Copy"}, clipboard : {<<>>}, inFlight : {<<>>},
               reverts : {0}, resolved : {0}, rejected : {0},
               available : BOOLEAN]

\* the click handler reading the name the script wrote, not the field
ClickValueWritten(d) == BranchNameOf[WorkItemOf[Head(d.links)]]

\* const value = branchInput.value
ClickValue(d) == d.value

\* click on the control: navigator.clipboard.writeText(value); where the
\* page has no navigator.clipboard the handler throws and nothing is written
ClickCopy ==
  /\ NoPending
  /\ copy.icon # "none"
  /\ Clicks < MaxClicks
  /\ copy' = IF copy.available
               THEN [copy EXCEPT !.inFlight = Append(@, ClickValue(dom))]
               ELSE [copy EXCEPT !.rejected = @ + 1]
  /\ UNCHANGED <<dom, inputLog, ep, emptied, markers, calc>>

\* the control after write i succeeded: the then-callback swaps the icon to
\* the check mark and sets the 1500 ms timer
ResolveResult(c, i) ==
  [c EXCEPT !.clipboard = <<c.inFlight[i]>>, !.inFlight = RemoveAt(@, i),
            !.icon = "CheckMark", !.reverts = @ + 1, !.resolved = @ + 1]

ClipboardResolve(i) ==
  /\ NoPending
  /\ i \in 1..Len(copy.inFlight)
  /\ copy' = ResolveResult(copy, i)
  /\ UNCHANGED <<dom, inputLog, ep, emptied, markers, calc>>

\* a rejection handled like a success
RejectResultAsSuccess(c, i) ==
  [c EXCEPT !.inFlight = RemoveAt(@, i), !.icon = "CheckMark",
            !.reverts = @ + 1, !.rejected = @ + 1]

\* the control after write i failed: the promise has no rejection handler
RejectResult(c, i) ==
  [c EXCEPT !.inFlight = RemoveAt(@, i), !.rejected = @ + 1]

ClipboardReject(i) ==
  /\ NoPending
  /\ i \in 1..Len(copy.inFlight)
  /\ copy' = RejectResult(copy, i)
  /\ UNCHANGED <<dom, inputLog, ep, emptied, markers, calc>>

\* the 1500 ms timer: the icon back to the copy icon
RevertIcon ==
  /\ NoPending
  /\ copy.icon # "none"
  /\ copy.reverts > 0
  /\ copy' = [copy EXCEPT !.icon = "Copy", !.reverts = @ - 1]
  /\ UNCHANGED <<dom, inputLog, ep, emptied, markers, calc>>

CopyNext ==
  \/ ClickCopy
  \/ \E i \in 1..MaxClicks : ClipboardResolve(i)
  \/ \E i \in 1..MaxClicks : ClipboardReject(i)
  \/ RevertIcon
  \/ \E v \in UserValues : UserType(v)
  \/ \E e \in Episodes : Timeout(e)

\* a timer that is due fires
CopySpec == CopyInit /\ [][CopyNext]_vars /\ WF_vars(RevertIcon)

(***************************************************************************)
(* The script on any markup around the input.  The dialog carries the role *)
(* as in Azure DevOps; where the .flex-column and the .bolt-textfield sit  *)
(* around the input is the host's choice.                                  *)
(***************************************************************************)
LayoutInit ==
  /\ dom \in [hasInput : {FALSE}, value : {<<>>}, region : {"absent"},
               links : {<<>>}, layout : Layouts, roles : {{"dialog"}},
               controls : {0}, posObservers : {0}]
  /\ InitRest

LayoutSpec == LayoutInit /\ [][Next]_vars

\* the copy controls inside the input's .flex-column: the control is appended
\* to the .bolt-textfield, which is inside the container in one layout only
ContainerControls(d) == IF d.layout = "textfieldInContainer" THEN d.controls ELSE 0

(***************************************************************************)
(* Claims.                                                                 *)
(***************************************************************************)
RECURSIVE SumWrites(_)
SumWrites(n) == IF n = 0 THEN 0 ELSE ep[n].writes + SumWrites(n - 1)
\* writes of the input by all episodes together
TotalWrites == SumWrites(MaxEpisodes)

\* the episode's own callbacks are over: nothing of it can run any more
Ended(e) ==
  \/ ep[e].pc \in {"returned", "immediate"}
  \/ ep[e].pc = "waiting" /\ ep[e].settled

\* "feature/100-Add-Login-Page"
Expected100 == <<"f","e","a","t","u","r","e","/","1","0","0","-",
                 "A","d","d","-","L","o","g","i","n","-","P","a","g","e">>

\* C1: in a subscribed episode at most one of {successful extraction, timeout}
\* takes effect: settled never goes back to false (so it turns true at most
\* once), fillBranchName is called at most once, a timed-out episode has made
\* no fill, and a step of an episode that is already settled changes nothing
\* but the consumption of its timer: not the tree, not the input, no episode.
C1_AtMostOneOutcome ==
  [][\A e \in Episodes :
       /\ ep[e].settled => ep'[e].settled
       /\ ep'[e].fillCalls <= 1
       /\ ep'[e].timedOut => ep'[e].fillCalls = 0
       /\ (ep[e].settled /\ ep'[e] # ep[e]) =>
            /\ ep' = [ep EXCEPT ![e].timer = "fired"]
            /\ dom' = dom
            /\ inputLog' = inputLog]_vars

\* C1 witness: the extraction won, and the timer's callback ran afterwards
C1_Witness ==
  \E e \in Episodes :
    /\ ep[e].pc = "waiting" /\ ep[e].settled /\ ep[e].fillCalls = 1
    /\ ep[e].timer = "fired" /\ ~ep[e].timedOut

\* C2: every step in which the script touches the input (the log grows or the
\* value changes while an episode moves) starts with the trimmed value empty,
\* and a step of an episode that starts with a non-blank value leaves the
\* value and the input alone.
C2_NeverOverwrites ==
  [][/\ (Len(inputLog') > Len(inputLog) \/ (ep' # ep /\ dom'.value # dom.value))
          => Trim(dom.value) = <<>>
     /\ (ep' # ep /\ Trim(dom.value) # <<>>)
          => (dom'.value = dom.value /\ inputLog' = inputLog)]_vars

\* C2 witness: the user typed after the handoff, the extraction then
\* succeeded, and the user's value is still there
C2_Witness ==
  \E e \in Episodes :
    /\ ep[e].pc = "waiting" /\ ep[e].settled /\ ep[e].fillCalls = 1
    /\ ep[e].writes = 0 /\ dom.value = <<"x">> /\ inputLog = <<>>

\* C3: a mutation callback of a subscribed, unsettled episode that finds the
\* link "Task 100: Add login page" first in the region and the field blank
\* leaves the value "feature/100-Add-Login-Page" and ends by focusing and
\* selecting the input; and once the field holds that value, no step of the
\* host or of an episode (such as a later mutation adding a link) changes it.
C3_EndToEnd ==
  [][/\ \A e \in Episodes :
          ( /\ ep[e].pc = "waiting" /\ ~ep[e].settled
            /\ ep[e].pending /\ ~ep'[e].pending
            /\ dom.region = "attached" /\ dom.links # <<>>
            /\ Head(dom.links) = LinkText1
            /\ Trim(dom.value) = <<>> )
          => /\ dom'.value = Expected100
             /\ Len(inputLog') >= Len(inputLog) + 2
             /\ SubSeq(inputLog', Len(inputLog') - 1, Len(inputLog'))
                  = <<"focus", "select">>
     /\ (dom.value = Expected100 /\ (ep' # ep \/ dom'.links # dom.links))
          => dom'.value = Expected100]_vars

\* C3 witness: a subscribed episode wrote the name, and a second link was
\* added after it
C3_Witness ==
  \E e \in Episodes :
    /\ ep[e].pc = "waiting" /\ ep[e].writes = 1
    /\ dom.value = Expected100
    /\ Len(dom.links) = 2 /\ dom.links[1] = LinkText1
    /\ TotalWrites = 1

\* C4: when the handoff finds the input, a blank value, the region and a
\* matching first link, the episode ends in that turn: one fill, the value
\* written, no subscription, no pending record and no timer; and an episode
\* that ended this way never gets any of them.
C4_ImmediateSettles ==
  [][\A e \in Episodes :
       /\ ( /\ ep[e].pc = "scheduled" /\ ep'[e].pc # "scheduled"
            /\ InScope(ep[e].root) /\ dom.hasInput /\ Trim(dom.value) = <<>>
            /\ getWorkItemFromDialog(ep[e].root, dom).found )
          => /\ ep'[e].pc = "immediate"
             /\ ep'[e].fillCalls = 1 /\ ep'[e].writes = 1
             /\ dom'.value = BranchNameOf[getWorkItemFromDialog(ep[e].root, dom)]
       /\ ep'[e].pc = "immediate"
          => /\ ~ep'[e].observing /\ ~ep'[e].pending
             /\ ep'[e].timer = "none" /\ ep'[e].fillCalls = 1]_vars

\* C4 witness: an episode filled the field at the handoff
C4_Witness ==
  \E e \in Episodes : ep[e].pc = "immediate" /\ ep[e].writes = 1

\* C5: a subscribed episode settles without a successful extraction only in
\* the callback of its timer, which in that turn disconnects the observer,
\* drops its pending records and logs the timeout; a timer callback on an
\* unsettled episode always does so; and a timed-out episode has made no
\* fill and never changes again.
C5_TimeoutSettles ==
  [][\A e \in Episodes :
       /\ (~ep[e].settled /\ ep'[e].settled /\ ep'[e].fillCalls = ep[e].fillCalls)
          => (ep[e].timer = "pending" /\ ep'[e].timer = "fired")
       /\ (ep[e].timer = "pending" /\ ep'[e].timer = "fired" /\ ~ep[e].settled)
          => /\ ep'[e].settled /\ ep'[e].timedOut
             /\ ~ep'[e].observing /\ ~ep'[e].pending
       /\ ep'[e].timedOut => (ep'[e].fillCalls = 0 /\ ep'[e].writes = 0)
       /\ ep[e].timedOut => ep'[e] = ep[e]]_vars

\* C5 witness: after the timeout a matching link stands first in the region
\* and the field is blank, and the episode has not filled it
C5_Witness ==
  \E e \in Episodes :
    /\ ep[e].timedOut /\ dom.hasInput /\ Trim(dom.value) = <<>>
    /\ getWorkItemFromDialog(ep[e].root, dom).found
    /\ inputLog = <<>>

\* C6 (as claimed): a settled episode has neither a pending timer nor an
\* active subscription nor a queued record, on the success path as on the
\* timeout path.
C6_SettleCancelsBoth ==
  \A e \in Episodes :
    ep[e].settled =>
      (ep[e].timer # "pending" /\ ~ep[e].observing /\ ~ep[e].pending)

\* C7 (as claimed): an episode owns at most one timer and one subscription,
\* an episode that has ended keeps none of them, and once every started
\* episode has ended no observer created for an episode is still observing.
C7_NothingLiveAfterSettle ==
  /\ \A e \in Episodes :
       Ended(e) => (ep[e].timer # "pending" /\ ~ep[e].observing)
  /\ (Started # {} /\ \A e \in Started : Ended(e)) => dom.posObservers = 0

\* C8: no episode calls fillBranchName more than once, nor sets the value
\* more than once, whatever path it took.
C8_OneFillPerEpisode ==
  \A e \in Episodes : ep[e].fillCalls <= 1 /\ ep[e].writes <= ep[e].fillCalls

\* C8 witness: an episode filled the field in a mutation callback; the field
\* was emptied again and a matching link is first in the region
C8_Witness ==
  \E e \in Episodes :
    /\ ep[e].pc = "waiting" /\ ep[e].fillCalls = 1 /\ ep[e].writes = 1
    /\ Trim(dom.value) = <<>> /\ emptied
    /\ getWorkItemFromDialog(ep[e].root, dom).found

\* C9: on the input as it is in any reachable state, a second fillBranchName
\* right after a first one, with any two records, changes nothing: the value,
\* the events, the focus and selection and the copy control are as the first
\* call left them, and the first call left the field non-blank.
C9_FillIdempotent ==
  \A w1 \in Records \ {NoMatch}, w2 \in Records \ {NoMatch} :
    /\ fillBranchName(fillBranchName(Now, w1), w2) = fillBranchName(Now, w1)
    /\ Trim(fillBranchName(Now, w1).dom.value) # <<>>

\* C9 witness: two episodes called fillBranchName on the input one after the
\* other; the first wrote and the second did not
C9_Witness ==
  \E e \in Episodes, f \in Episodes :
    /\ e # f
    /\ ep[e].fillCalls = 1 /\ ep[e].writes = 1
    /\ ep[f].fillCalls = 1 /\ ep[f].writes = 0
    /\ ~emptied /\ Len(inputLog) > 0 /\ TotalWrites = 1

\* C10 (as claimed): one episode per added node that is or contains the
\* marker, and the input written at most once by all episodes together.
C10_OneWriteAcrossEpisodes ==
  /\ markers = Cardinality(Started)
  /\ TotalWrites <= 1

\* C10 (amended): one episode per added node that is or contains the marker,
\* and the input written at most once by all episodes together unless the
\* user emptied the field in between.
C10_OneWriteUnlessEmptied ==
  /\ markers = Cardinality(Started)
  /\ ~emptied => TotalWrites <= 1

\* C10 witness: the marker was reported twice, both episodes ran their fill,
\* one wrote
C10_Witness ==
  /\ markers = 2
  /\ \A e \in 1..2 : ep[e].fillCalls = 1
  /\ TotalWrites = 1 /\ ~emptied

\* the added nodes the detector matches: the marker, or an element that has
\* the marker among its descendants
Matching == {n \in AddedNodes : n = Marker \/ ContainsMarker(n)}

\* C11: for every added node that is or contains the marker, the root is the
\* nearest element, from the marker upwards, that carries role="dialog"; when
\* no element on that path carries it, the root is the added node itself,
\* whether that node is the marker or only contains it.  The root of every
\* started episode is such a root.
C11_RootResolution ==
  LET chain == SelfAndAncestors(Marker)
      tagged == {i \in 1..Len(chain) : chain[i] \in dom.roles}
      Resolved(node, r) ==
        IF tagged # {}
          THEN \E i \in tagged : chain[i] = r /\ \A j \in tagged : i <= j
          ELSE r = node
  IN  /\ \A node \in Matching : Resolved(node, ResolveRoot(node, dom.roles))
      /\ \A node \in AddedNodes \ Matching : ResolveRoot(node, dom.roles) = "none"
      /\ \A e \in Started : \E node \in Matching : Resolved(node, ep[e].root)

\* C11 witness: no element carries the role; one episode was started by the
\* added dialog element (which contains the marker) and one by the added
\* marker itself, and each got its own added node as root
C11_Witness ==
  /\ dom.roles = {}
  /\ ep[1].root = "dialog" /\ ep[2].root = Marker
  /\ markers = 2

\* C12: whenever the script touches the input, it does so in one turn and in
\* this order: the value is set, one "input" event, one "change" event, (the
\* copy control, when one is attached), focus, select; a fill that finds the
\* field blank performs exactly this, and a fill that finds it non-blank
\* dispatches nothing and moves no focus.
C12_WriteOrder ==
  [][/\ inputLog' # inputLog =>
          /\ \E ctrl \in {<<>>, <<"control">>} :
                inputLog' = inputLog \o <<"set", "input", "change">> \o ctrl
                                     \o <<"focus", "select">>
          /\ dom'.value # dom.value
     /\ \A e \in Episodes :
          ep'[e].fillCalls > ep[e].fillCalls =>
            IF Trim(dom.value) = <<>>
              THEN inputLog' # inputLog
              ELSE inputLog' = inputLog /\ dom' = dom
     /\ (ep' # ep /\ dom'.value # dom.value) => inputLog' # inputLog]_vars

\* C12 witness: one fill wrote the field and attached the control, and a
\* later fill of another episode was skipped, leaving the log as it was
C12_Witness ==
  /\ inputLog = <<"set", "input", "change", "control", "focus", "select">>
  /\ \E e \in Episodes : ep[e].fillCalls = 1 /\ ep[e].writes = 0

\* "feature/"
FeatureSlash == <<"f","e","a","t","u","r","e","/">>

\* C13: the name built for a record the pattern produced is "feature/", the
\* id, one hyphen and formatTitle of the title; the id is a non-empty run of
\* digits of the link text; when the title formats to the empty string the
\* name is "feature/", the id and the hyphen, nothing more.
C13_BranchNameFormat ==
  calc.op = "built" =>
    LET id == calc.workItem.id
        formatted == formatTitle(calc.workItem.title)
    IN  /\ id # <<>>
        /\ \A i \in 1..Len(id) : id[i] \in Digit
        /\ \E k \in 0..Len(calc.arg) : SubSeq(calc.arg, k + 1, k + Len(id)) = id
        /\ Len(calc.branchName) = 8 + Len(id) + 1 + Len(formatted)
        /\ SubSeq(calc.branchName, 1, 8) = FeatureSlash
        /\ SubSeq(calc.branchName, 9, 8 + Len(id)) = id
        /\ calc.branchName[9 + Len(id)] = "-"
        /\ SubSeq(calc.branchName, 10 + Len(id), Len(calc.branchName)) = formatted
        /\ formatted = <<>> => calc.branchName = FeatureSlash \o id \o <<"-">>

\* C13 witness: the link "Bug 7: !!", whose title formats to the empty string,
\* gave the name "feature/7-"
C13_Witness ==
  /\ calc.op = "built" /\ calc.arg = TextBare
  /\ calc.branchName = <<"f","e","a","t","u","r","e","/","7","-">>

\* C14: a result of formatTitle holds only ASCII letters, digits and hyphens,
\* does not begin or end with a hyphen and has no two hyphens in a row; and
\* formatTitle applied to a result of formatTitle returns it unchanged.
C14_FormatShapeIdempotent ==
  /\ calc.op \in {"formatted", "reformatted"} =>
       LET out == calc.out
       IN  /\ \A i \in 1..Len(out) : out[i] \in AlphaNum \cup {"-"}
           /\ out # <<>> => (out[1] # "-" /\ out[Len(out)] # "-")
           /\ \A i \in 1..(Len(out) - 1) : ~(out[i] = "-" /\ out[i + 1] = "-")
  /\ calc.op = "reformatted" => calc.again = calc.out

\* C14 witness: "-a -" was formatted to "A", and formatted again
C14_Witness ==
  /\ calc.op = "reformatted" /\ calc.arg = <<"-", "a", " ", "-">>
  /\ calc.out = <<"A">> /\ calc.again = <<"A">>

\* the tokens of the reference pipeline, read off the title in one pass: a
\* character of the separator punctuation, a whitespace or a hyphen ends the
\* token, any other character that is not a letter or digit is dropped
RECURSIVE RefTokens(_, _)
RefTokens(s, cur) ==
  LET done == IF cur = <<>> THEN <<>> ELSE <<cur>>
  IN  IF s = <<>> THEN done
      ELSE IF Head(s) \in AlphaNum THEN RefTokens(Tail(s), Append(cur, Head(s)))
      ELSE IF Head(s) \in SepPunct \cup Space \cup {"-"}
        THEN done \o RefTokens(Tail(s), <<>>)
      ELSE RefTokens(Tail(s), cur)

\* the reference pipeline: first character of each token in upper case, the
\* rest as it is, hyphens between
RefFormat(s) ==
  LET tokens == RefTokens(s, <<>>)
  IN  Join([i \in 1..Len(tokens) |->
              <<ToUpper(tokens[i][1])>> \o Tail(tokens[i])], <<"-">>)

\* C15: formatTitle gives what the reference pipeline gives, for every
\* title; "hello world example" gives "Hello-World-Example",
\* "Fix: login/logout   bug!!" gives "Fix-Login-Logout-Bug", and a title of
\* whitespace only (or none) gives the empty string.
C15_FormatReference ==
  calc.op = "formatted" =>
    /\ calc.out = RefFormat(calc.arg)
    /\ calc.arg = TitleHello => calc.out = <<"H","e","l","l","o","-","W","o","r","l","d","-","E","x","a","m","p","l","e">>
    /\ calc.arg = TitleFix => calc.out = <<"F","i","x","-","L","o","g","i","n","-","L","o","g","o","u","t","-","B","u","g">>
    /\ (\A i \in 1..Len(calc.arg) : calc.arg[i] \in Space) => calc.out = <<>>

\* C15 witness: "Fix: login/logout   bug!!" was formatted
C15_Witness ==
  /\ calc.op = "formatted" /\ calc.arg = TitleFix
  /\ Len(calc.out) = 20

\* the records the shape <word><whitespace><digits>:<optional whitespace>
\* <free text> allows for the text t: every way to cut t into these parts,
\* the free text being non-empty and on one line
ShapeRecords(t) ==
  LET n == Len(t)
      In(a, b, class) == \A x \in a..b : t[x] \in class
      OneLine(a) == \A x \in a..n : t[x] \notin LineTerminator
      I == {i \in 1..n : In(1, i, WordChar)}
      J(i) == {j \in (i + 1)..n : In(i + 1, j, Space)}
      K(j) == {k \in (j + 1)..(n - 1) : In(j + 1, k, Digit) /\ t[k + 1] = ":"}
      M(k) == {m \in (k + 1)..(n - 1) : In(k + 2, m, Space) /\ OneLine(m + 1)}
  IN  UNION {UNION {UNION {
        {[found |-> TRUE, id |-> SubSeq(t, j + 1, k),
          title |-> Trim(SubSeq(t, m + 1, n))] : m \in M(k)}
        : k \in K(j)} : j \in J(i)} : i \in I}

C17_FailureFrame ==
  [][\A e \in Episodes :
       LET root == ep[e].root
           inputMissing == ~(InScope(root) /\ dom.hasInput)
           regionMissing == ~(InScope(root) /\ dom.region = "attached")
           noMatch == dom.links = <<>> \/ ~WorkItemOf[Head(dom.links)].found
           timeout == ep[e].timer = "pending" /\ ep'[e].timer = "fired"
           turn == \/ ep[e].pc = "scheduled" /\ ep'[e].pc # "scheduled"
                   \/ ep[e].pending /\ ~ep'[e].pending
                   \/ timeout
       IN  /\ (turn /\ (inputMissing \/ regionMissing \/ noMatch \/ timeout))
                => (dom' = dom /\ inputLog' = inputLog)
           /\ (ep'[e].pc = "returned" \/ ep'[e].timedOut)
                => (ep'[e].fillCalls = 0 /\ ep'[e].writes = 0)]_vars

\* C17 witness: one episode returned at the handoff and one timed out; the
\* region, detached from the dialog, holds a link that fits the pattern, and
\* the input is as the host left it
C17_Witness ==
  \E e \in Episodes, f \in Episodes :
    /\ ep[e].pc = "returned" /\ ep[f].timedOut
    /\ dom.region = "detached" /\ dom.links # <<>>
    /\ WorkItemOf[Head(dom.links)].found
    /\ dom.value = <<>> /\ inputLog = <<>> /\ dom.controls = 0

\* C18: a click hands the clipboard the field's value as it is at the click,
\* whatever the script wrote and whatever the user types later; a write that
\* succeeds puts that value on the clipboard, shows the check mark and sets
\* one timer; a timer that fires shows the copy icon; and once the clicks
\* are over the control shows the copy icon for good.
C18_CopyReadsCurrentValue ==
  /\ [][/\ Len(copy'.inFlight) > Len(copy.inFlight) =>
             (copy'.inFlight = Append(copy.inFlight, dom.value) /\ dom' = dom)
        /\ copy'.resolved > copy.resolved =>
             /\ \E i \in 1..Len(copy.inFlight) :
                   /\ copy'.clipboard = <<copy.inFlight[i]>>
                   /\ copy'.inFlight = RemoveAt(copy.inFlight, i)
             /\ copy'.icon = "CheckMark"
             /\ copy'.reverts = copy.reverts + 1
        /\ copy'.reverts < copy.reverts => copy'.icon = "Copy"
        /\ copy'.icon = "CheckMark" => copy'.reverts > 0]_vars
  /\ <>[](copy.icon = "Copy")

\* C18 witness: the user replaced the written name by "x", clicked, and
\* emptied the field again; the clipboard holds "x", and after a second
\* successful click the icon is back to the copy icon with no timer left
C18_Witness ==
  /\ copy.clipboard = <<(<<"x">>)>>
  /\ dom.value = <<>>
  /\ copy.resolved = 2 /\ copy.reverts = 0 /\ copy.icon = "Copy"

\* C19: a clipboard write that fails changes nothing but the write itself:
\* the icon, the timers and the clipboard are as before, no new write is
\* started, and the field, the input and the episodes are untouched; where
\* every write fails the check mark is never shown.
C19_CopyFailureSilent ==
  [][/\ copy'.rejected > copy.rejected =>
          /\ copy'.icon = copy.icon
          /\ copy'.reverts = copy.reverts
          /\ copy'.clipboard = copy.clipboard
          /\ copy'.resolved = copy.resolved
          /\ Len(copy'.inFlight) <= Len(copy.inFlight)
          /\ dom' = dom /\ inputLog' = inputLog /\ ep' = ep
     /\ copy'.resolved = 0 =>
          (copy'.icon = "Copy" /\ copy'.reverts = 0 /\ copy'.clipboard = <<>>)
     /\ copy'.reverts <= copy'.resolved]_vars

\* C19 witness: two writes were started and both were rejected
C19_Witness ==
  /\ copy.available /\ copy.rejected = 2 /\ copy.inFlight = <<>>
  /\ copy.icon = "Copy" /\ copy.clipboard = <<>>

\* the outcomes an episode has reached
Outcomes(e) ==
  {o \in {"filled", "skipped", "abandoned", "timedOut"} :
     \/ o = "filled" /\ ep[e].writes = 1
     \/ o = "skipped" /\ ep[e].fillCalls = 1 /\ ep[e].writes = 0
     \/ o = "abandoned" /\ ep[e].pc = "returned"
     \/ o = "timedOut" /\ ep[e].timedOut}

\* C20: an episode has never more than one outcome, and an outcome once
\* reached stays; every started episode eventually has one, whether the
\* link is there at the handoff, arrives before the timeout or never
\* arrives; an observing subscription is eventually disconnected, and it is
\* never observing once the episode's timer has fired.
C20_EveryEpisodeEnds ==
  /\ [](\A e \in Episodes :
          /\ Cardinality(Outcomes(e)) <= 1
          /\ Ended(e) => Cardinality(Outcomes(e)) = 1
          /\ ep[e].timer = "fired" => ~ep[e].observing)
  /\ [][\A e \in Episodes :
          Outcomes(e) # {} => Outcomes(e)' = Outcomes(e)]_vars
  /\ \A e \in Episodes :
       /\ (ep[e].pc # "free") ~> (Ended(e) /\ Cardinality(Outcomes(e)) = 1)
       /\ ep[e].observing ~> ~ep[e].observing

\* C20 witness: two episodes of one dialog have ended differently: the
\* first found no link, subscribed and timed out; the second found the link
\* at its handoff and filled the field
C20_Witness ==
  /\ ep[1].timedOut /\ ~ep[1].observing
  /\ ep[2].pc = "immediate" /\ ep[2].writes = 1

\* C21: the turn in which the detector sees the marker only schedules: each
\* added node that is or contains the marker starts one episode, the episode
\* is left waiting for its handoff with nothing of the handler done, and the
\* tree and the input are untouched.  An episode leaves the scheduled state
\* once, in a later turn, and what the handler decides there (return, or go
\* on to waitForWorkItem) is decided by the input, its value and the region
\* as they are in that turn.
C21_DeferredHandoff ==
  [][/\ Cardinality({e \in Episodes : ep[e].pc = "free" /\ ep'[e].pc # "free"})
          = markers' - markers
     /\ \A e \in Episodes :
          /\ (ep[e].pc = "free" /\ ep'[e].pc # "free") =>
               /\ ep'[e] = [FreeEpisode EXCEPT !.pc = "scheduled", !.root = ep'[e].root]
               /\ dom' = dom /\ inputLog' = inputLog
          /\ ep[e].pc \notin {"free", "scheduled"} => ep'[e].pc = ep[e].pc
          /\ (ep[e].pc = "scheduled" /\ ep'[e].pc # "scheduled") =>
               LET root == ep[e].root
                   ready == /\ InScope(root) /\ dom.hasInput
                            /\ Trim(dom.value) = <<>>
                            /\ dom.region = "attached"
               IN  /\ markers' = markers
                   /\ ep'[e].pc = "returned" <=> ~ready
                   /\ ep'[e].pc \in {"immediate", "waiting"} <=> ready]_vars

\* C21 witness: two episodes of one dialog; the handoff of the first found the
\* field blank and filled it, the handoff of the second, in a later turn,
\* found the name there and returned
C21_Witness ==
  /\ ep[1].pc = "immediate" /\ ep[1].writes = 1
  /\ ep[2].pc = "returned" /\ ep[2].root = "dialog"
  /\ ~emptied /\ dom.value = Expected100

\* C22: the detector is subscribed in every reachable state: whatever the
\* episodes started so far have come to (none yet, scheduled, subscribed,
\* filled, skipped, abandoned, timed out), the insertion of the marker, or of
\* an element that contains it, is reported to the detector, and its callback
\* starts one more episode, scheduled on the root resolved for that node.
\* (Stated for the turns the model gives the detector: no mutation record
\* of an episode waits, and the number of episodes is below the bound.)
C22_DetectorNeverTornDown ==
  (NoPending /\ Cardinality(Started) < MaxEpisodes) =>
    \A node \in Matching :
      ENABLED ( /\ ObserverCallback(<<node>>, dom.roles)
                /\ \E e \in Episodes :
                     /\ ep[e].pc = "free" /\ ep'[e].pc = "scheduled"
                     /\ ep'[e].root = ResolveRoot(node, dom.roles)
                     /\ \A f \in Episodes \ {e} : ep'[f] = ep[f] )

\* C22 witness: the first episode has timed out, and a second episode,
\* started by another report of the marker, stands scheduled
C22_Witness ==
  /\ ep[1].timedOut /\ ep[1].timer = "fired"
  /\ ep[2].pc = "scheduled" /\ ep[2].root = "dialog"

\* C23: a mutation callback of a subscribed, unsettled episode that finds the
\* region missing from the dialog, no link in it, or a first link whose text
\* does not fit the pattern only consumes its record: the episode stays
\* unsettled and subscribed with its timer pending, and the tree and the
\* input are untouched.  The next change of the region's links queues a
\* record for it again, a callback that then finds a fitting link settles
\* the episode with its fill, and a subscribed episode settles in no other
\* way than by such a callback or by its timer.
C23_AbsenceRetried ==
  [][\A e \in Episodes :
       LET root == ep[e].root
           absent == \/ ~(InScope(root) /\ dom.region = "attached")
                     \/ dom.links = <<>>
                     \/ ~WorkItemOf[Head(dom.links)].found
           callback == /\ ep[e].pending /\ ~ep'[e].pending
                       /\ ep[e].observing /\ ~ep[e].settled
       IN  /\ (callback /\ absent) =>
                /\ ep'[e] = [ep[e] EXCEPT !.pending = FALSE]
                /\ ~ep'[e].settled /\ ep'[e].observing /\ ep'[e].timer = "pending"
                /\ dom' = dom /\ inputLog' = inputLog
           /\ (callback /\ ~absent) =>
                /\ ep'[e].settled /\ ~ep'[e].observing
                /\ ep'[e].fillCalls = ep[e].fillCalls + 1
           /\ (ep[e].observing /\ dom'.links # dom.links) => ep'[e].pending
           /\ ep'[e].pending => (ep'[e].observing /\ ~ep'[e].settled)
           /\ (ep[e].observing /\ ~ep'[e].observing) =>
                \/ callback /\ ~absent
                \/ ep'[e].timedOut /\ ~ep[e].timedOut]_vars

\* C23 witness: a subscribed episode has had its callback for a link that
\* does not fit the pattern; it is still unsettled and subscribed, and
\* nothing has been written
C23_Witness ==
  \E e \in Episodes :
    /\ ep[e].pc = "waiting" /\ ~ep[e].settled /\ ep[e].observing
    /\ ~ep[e].pending /\ ep[e].timer = "pending"
    /\ dom.region = "attached" /\ dom.links = <<LinkText3>>
    /\ inputLog = <<>> /\ dom.value = <<>>

\* C24: a handoff that finds no input under the dialog root, a value that is
\* not blank, or no region under the dialog root ends the episode in that
\* turn: it has no subscription, no queued record, no timer and no fill, and
\* the tree and the input are as they were.  An episode that returned this
\* way never changes again, whatever the host and the user do afterwards.
C24_ReturnIsFinal ==
  [][\A e \in Episodes :
       LET root == ep[e].root
           notReady == \/ ~(InScope(root) /\ dom.hasInput)
                       \/ Trim(dom.value) # <<>>
                       \/ ~(InScope(root) /\ dom.region = "attached")
       IN  /\ (ep[e].pc = "scheduled" /\ ep'[e].pc # "scheduled" /\ notReady) =>
                /\ ep'[e] = [FreeEpisode EXCEPT !.pc = "returned", !.root = root]
                /\ dom' = dom /\ inputLog' = inputLog
           /\ ep[e].pc = "returned" =>
                /\ ep'[e] = ep[e]
                /\ ~ep[e].observing /\ ~ep[e].pending /\ ep[e].timer = "none"
                /\ ep[e].fillCalls = 0 /\ ep[e].writes = 0]_vars

\* C24 witness: an episode returned at its handoff; now the dialog has the
\* input, blank, and the region with a fitting link first, the episode's
\* turns are over and nothing has been written
C24_Witness ==
  \E e \in Episodes :
    /\ ep[e].pc = "returned" /\ ep[e].root = "dialog"
    /\ dom.hasInput /\ Trim(dom.value) = <<>>
    /\ dom.region = "attached" /\ Len(dom.links) = 2
    /\ WorkItemOf[Head(dom.links)].found
    /\ \A f \in Episodes : ep[f].pc \notin {"free", "scheduled"} /\ ~ep[f].pending
    /\ inputLog = <<>>

\* C25: a mutation callback of an unsettled episode that extracts a record
\* settles the episode and disconnects its observer in that turn, whether the
\* field is blank or not; when the field is not blank it writes nothing and
\* leaves the tree and the input as they are.  A settled episode never
\* writes, calls the fill or subscribes again, even when the field has
\* become blank and the region's links change.
C25_SkipSettles ==
  [][\A e \in Episodes :
       LET wi == getWorkItemFromDialog(ep[e].root, dom)
           callback == ep[e].pending /\ ~ep'[e].pending /\ ~ep[e].settled
       IN  /\ (callback /\ wi.found) =>
                /\ ep'[e].settled /\ ~ep'[e].observing
                /\ ep'[e].fillCalls = ep[e].fillCalls + 1
                /\ ep'[e].writes = ep[e].writes
                                    + (IF Trim(dom.value) = <<>> THEN 1 ELSE 0)
                /\ Trim(dom.value) # <<>> => (dom' = dom /\ inputLog' = inputLog)
           /\ ep[e].settled =>
                /\ ep'[e].settled /\ ~ep'[e].observing /\ ~ep'[e].pending
                /\ ep'[e].writes = ep[e].writes
                /\ ep'[e].fillCalls = ep[e].fillCalls]_vars

\* C25 witness: an episode extracted a record while the field held the
\* user's text and settled without writing; the user has emptied the field,
\* the region holds two links with a fitting one first, and still nothing
\* has been written
C25_Witness ==
  \E e \in Episodes :
    /\ ep[e].pc = "waiting" /\ ep[e].settled /\ ~ep[e].observing
    /\ ep[e].fillCalls = 1 /\ ep[e].writes = 0
    /\ emptied /\ Trim(dom.value) = <<>>
    /\ dom.region = "attached" /\ Len(dom.links) = 2
    /\ WorkItemOf[Head(dom.links)].found
    /\ inputLog = <<>>

\* C26: an extraction (at the handoff or in a mutation callback) looks at the
\* region's links as they are in that turn and at the first of them only.
\* When the first link's text does not fit the pattern the attempt finds
\* nothing, although a later link may fit: no fill, the tree and the input
\* untouched.  Every fill is made for the first link of that turn, and the
\* value a write leaves is the name built from that link's text.
C26_FirstLinkOnly ==
  [][\A e \in Episodes :
       LET attempt == \/ ep[e].pending /\ ~ep'[e].pending /\ ~ep[e].settled
                      \/ ep[e].pc = "scheduled" /\ ep'[e].pc \in {"waiting", "immediate"}
           first == Head(dom.links)
       IN  /\ (attempt /\ dom.links # <<>> /\ ~ExtractText(first).found) =>
                /\ ep'[e].fillCalls = ep[e].fillCalls
                /\ ~ep'[e].settled
                /\ dom' = dom /\ inputLog' = inputLog
           /\ ep'[e].fillCalls > ep[e].fillCalls =>
                /\ attempt
                /\ dom.links # <<>> /\ ExtractText(first).found
           /\ ep'[e].writes > ep[e].writes =>
                dom'.value = buildBranchName(ExtractText(first).id,
                                             ExtractText(first).title)]_vars

\* C26 witness: the region holds a link that does not fit the pattern and,
\* after it, one that does; a subscribed episode has had its callback, is
\* still unsettled, and the blank field has not been written
C26_Witness ==
  \E e \in Episodes :
    /\ ep[e].pc = "waiting" /\ ~ep[e].settled /\ ~ep[e].pending
    /\ dom.region = "attached" /\ dom.links = <<LinkText3, LinkText1>>
    /\ dom.hasInput /\ Trim(dom.value) = <<>> /\ inputLog = <<>>

\* C27: a control is attached only in a turn in which an episode writes the
\* field, one control in such a turn at most, as part of that write; a turn
\* of an episode that skips the write, returns or times out attaches none.
\* After any number of episodes and writes the input's container holds at
\* most one control, on every markup, and on the markup of Azure DevOps
\* (the text field inside the container) the page holds at most one.
C27_OneCopyControl ==
  [][/\ dom'.controls # dom.controls =>
          /\ dom'.controls = dom.controls + 1
          /\ \E e \in Episodes :
               /\ ep'[e].writes = ep[e].writes + 1
               /\ \A f \in Episodes \ {e} : ep'[f] = ep[f]
          /\ dom'.value # dom.value
          /\ inputLog' = inputLog \o <<"set", "input", "change", "control",
                                        "focus", "select">>
     /\ \A e \in Episodes :
          (ep'[e] # ep[e] /\ ep'[e].writes = ep[e].writes) =>
            dom'.controls = dom.controls
     /\ dom'.controls <= TotalWrites'
     /\ ContainerControls(dom') <= 1
     /\ dom'.layout = "textfieldInContainer" => dom'.controls <= 1]_vars

\* C27 witness: on the markup of Azure DevOps the field was written twice
\* (the user emptied it in between) by two episodes, and there is one control
C27_Witness ==
  /\ dom.layout = "textfieldInContainer"
  /\ ep[1].writes = 1 /\ ep[2].writes = 1
  /\ dom.controls = 1
  /\ Len(SelectSeq(inputLog, LAMBDA x : x = "control")) = 1

\* C28: a turn in which one episode moves (its handoff, a mutation callback
\* of it, its timeout: it returns, subscribes, settles, disconnects or uses
\* up its timer) leaves every other episode exactly as it was: settled flag,
\* subscription, queued record, timer and counters.  Of the tree such a turn
\* changes nothing but the input's value and the copy control that comes
\* with the write, and only when it started with the value blank.
C28_EpisodesDisjoint ==
  [][\A e \in Episodes :
       LET moved == \/ ep[e].pc # "free" /\ ep'[e].pc # ep[e].pc
                    \/ ep'[e].settled # ep[e].settled
                    \/ ep'[e].observing # ep[e].observing
                    \/ ep'[e].timer # ep[e].timer
                    \/ ep'[e].fillCalls # ep[e].fillCalls
                    \/ ep[e].pending /\ ~ep'[e].pending
       IN  moved =>
             /\ \A f \in Episodes \ {e} : ep'[f] = ep[f]
             /\ dom' # dom =>
                  /\ Trim(dom.value) = <<>>
                  /\ ep'[e].writes = ep[e].writes + 1
                  /\ dom' = [dom EXCEPT !.value = dom'.value,
                                         !.controls = dom'.controls,
                                         !.posObservers = dom'.posObservers]]_vars

\* C28 witness: two episodes of one dialog were subscribed at the same time;
\* the first has timed out, the second is still unsettled and subscribed
\* with its timer pending
C28_Witness ==
  /\ ep[1].pc = "waiting" /\ ep[1].timedOut /\ ~ep[1].observing
  /\ ep[2].pc = "waiting" /\ ~ep[2].settled /\ ep[2].observing
  /\ ep[2].timer = "pending"

====
